---- MODULE Spec2Model ----
(***************************************************************************)
(* Model of the DisjointSet structure of src/src/lib.rs.                   *)
(*                                                                         *)
(* Every Rc<RefCell<SubSet<T>>> allocation is a cell of `heap`, addressed  *)
(* by its index; `strong` is the strong count of that allocation.  The     *)
(* lookup table `elements` maps a value to the address it owns (0: no      *)
(* entry).  A Weak parent link is an address (0: None); upgrade() of a     *)
(* link yields None once the strong count of the target is 0.  `clone` is   *)
(* the table of a second DisjointSet obtained by the derived Clone (<<>>   *)
(* while there is none); the derived Clone of the HashMap clones each Rc,  *)
(* so both tables own the same allocations.                                *)
(***************************************************************************)
EXTENDS Naturals, Integers, Sequences, FiniteSets, TLC

\* ---- bounds -------------------------------------------------------------
MaxVal == 4
MaxNodes == 4

Vals == 1..MaxVal

VARIABLES heap, strong, elements, clone, call, ret, pre, abs

vars == <<heap, strong, elements, clone, call, ret, pre, abs>>

\* ---- results ------------------------------------------------------------
None == [tag |-> "None", val |-> 0]
Some(v) == [tag |-> "Some", val |-> v]
Unit == [tag |-> "Unit", val |-> 0]
\* unwrap() on None: the call aborts
Panic == [tag |-> "Panic", val |-> 0]
\* a walk that does not end
Loop == [tag |-> "Loop", val |-> 0]

\* ---- SubSet -------------------------------------------------------------
\* a node that starts with rank 1
SubSetNew_RankOne(value) == [rank |-> 1, value |-> value, parent |-> 0]

SubSetNew(value) == [rank |-> 0, value |-> value, parent |-> 0]

\* contents of an allocation whose strong count reached 0
Dropped == [rank |-> 0, value |-> 0, parent |-> 0]

\* Weak::upgrade: the address when the target is still owned, else 0 (None)
upgrade(s, p) == IF s[p] > 0 THEN p ELSE 0

\* ---- make_set -----------------------------------------------------------
\* make_set that keeps the node of a value already in the table
make_set_keep(h, s, els, value) ==
  IF els[value] = 0
  THEN [heap |-> Append(h, SubSetNew(value)), strong |-> Append(s, 1),
        elements |-> [els EXCEPT ![value] = Len(h) + 1]]
  ELSE [heap |-> Append(h, Dropped), strong |-> Append(s, 0), elements |-> els]

\* HashMap::insert puts the new Rc under the key and hands back the previous
\* one, which is dropped at the end of the statement.
make_set(h, s, els, value) ==
  LET new == Len(h) + 1
      old == els[value]
      h1 == Append(h, SubSetNew(value))
      s1 == Append(s, 1)
  IN  IF old = 0
      THEN [heap |-> h1, strong |-> s1,
            elements |-> [els EXCEPT ![value] = new]]
      ELSE [heap |-> IF s1[old] = 1 THEN [h1 EXCEPT ![old] = Dropped] ELSE h1,
            strong |-> [s1 EXCEPT ![old] = @ - 1],
            elements |-> [els EXCEPT ![value] = new]]

\* ---- find ---------------------------------------------------------------
\* find that treats a value without table entry as its own representative
find_MissingIsSelf(h, s, els, value) ==
  IF els[value] = 0
  THEN [heap |-> h, ret |-> Some(value)]
  ELSE [heap |-> h, ret |-> Some(value)]

\* The while loop of find: from `root`, push the node and step to the
\* upgraded parent until a node without parent is met.
RECURSIVE FindWalk(_, _, _, _, _)
FindWalk(h, s, root, changed_nodes, fuel) ==
  IF h[root].parent = 0
  THEN [tag |-> "Root", root |-> root, changed_nodes |-> changed_nodes]
  ELSE IF fuel = 0
  THEN [tag |-> "Loop", root |-> 0, changed_nodes |-> changed_nodes]
  ELSE IF upgrade(s, h[root].parent) = 0
  THEN [tag |-> "Panic", root |-> 0, changed_nodes |-> changed_nodes]
  ELSE FindWalk(h, s, upgrade(s, h[root].parent),
                Append(changed_nodes, root), fuel - 1)

\* compression that points every visited node at itself
Compress_ToSelf(h, changed_nodes, root) ==
  [i \in DOMAIN h |->
     IF \E k \in DOMAIN changed_nodes : changed_nodes[k] = i
     THEN [h[i] EXCEPT !.parent = i]
     ELSE h[i]]

\* compression that leaves out the node the walk started from
Compress_SkipFirst(h, changed_nodes, root) ==
  [i \in DOMAIN h |->
     IF \E k \in DOMAIN changed_nodes : k > 1 /\ changed_nodes[k] = i
     THEN [h[i] EXCEPT !.parent = root]
     ELSE h[i]]

\* compression that clears the parent link of every visited node
Compress_DropsLink(h, changed_nodes, root) ==
  [i \in DOMAIN h |->
     IF \E k \in DOMAIN changed_nodes : changed_nodes[k] = i
     THEN [h[i] EXCEPT !.parent = 0]
     ELSE h[i]]

\* Path compression on visited nodes
Compress(h, changed_nodes, root) ==
  [i \in DOMAIN h |->
     IF \E k \in DOMAIN changed_nodes : changed_nodes[k] = i
     THEN [h[i] EXCEPT !.parent = root]
     ELSE h[i]]

find(h, s, els, value) ==
  IF els[value] = 0
  THEN [heap |-> h, ret |-> None]
  ELSE LET w == FindWalk(h, s, els[value], <<>>, Len(h))
       IN  IF w.tag = "Panic" THEN [heap |-> h, ret |-> Panic]
           ELSE IF w.tag = "Loop" THEN [heap |-> h, ret |-> Loop]
           ELSE [heap |-> Compress(h, w.changed_nodes, w.root),
                 ret |-> Some(h[w.root].value)]

\* ---- union --------------------------------------------------------------
\* union that bumps the rank on a tie but forgets to link the second root
UnionRoots_NoLink(h, root_one, root_two, root_one_pointer, root_two_pointer) ==
  LET root_one_rank == h[root_one_pointer].rank
      root_two_rank == h[root_two_pointer].rank
  IN  IF root_one = root_two
      THEN [heap |-> h, ret |-> Some(root_one)]
      ELSE IF root_one_rank < root_two_rank
      THEN [heap |-> [h EXCEPT ![root_one_pointer].parent = root_two_pointer],
            ret |-> Some(root_one)]
      ELSE IF root_one_rank > root_two_rank
      THEN [heap |-> [h EXCEPT ![root_two_pointer].parent = root_one_pointer],
            ret |-> Some(root_two)]
      ELSE [heap |-> [h EXCEPT ![root_one_pointer].rank = root_one_rank + 1],
            ret |-> Some(root_two)]

\* union that returns the surviving root when the first root is absorbed
UnionRoots_RetSurvivor(h, root_one, root_two, root_one_pointer, root_two_pointer) ==
  LET root_one_rank == h[root_one_pointer].rank
      root_two_rank == h[root_two_pointer].rank
  IN  IF root_one = root_two
      THEN [heap |-> h, ret |-> Some(root_one)]
      ELSE IF root_one_rank < root_two_rank
      THEN [heap |-> [h EXCEPT ![root_one_pointer].parent = root_two_pointer],
            ret |-> Some(root_two)]
      ELSE IF root_one_rank > root_two_rank
      THEN [heap |-> [h EXCEPT ![root_two_pointer].parent = root_one_pointer],
            ret |-> Some(root_two)]
      ELSE [heap |-> [h EXCEPT ![root_two_pointer].parent = root_one_pointer,
                               ![root_one_pointer].rank = root_one_rank + 1],
            ret |-> Some(root_two)]

\* union that does not test for a shared root
UnionRoots_NoSameCheck(h, root_one, root_two, root_one_pointer, root_two_pointer) ==
  LET root_one_rank == h[root_one_pointer].rank
      root_two_rank == h[root_two_pointer].rank
  IN  IF root_one_rank < root_two_rank
      THEN [heap |-> [h EXCEPT ![root_one_pointer].parent = root_two_pointer],
            ret |-> Some(root_one)]
      ELSE IF root_one_rank > root_two_rank
      THEN [heap |-> [h EXCEPT ![root_two_pointer].parent = root_one_pointer],
            ret |-> Some(root_two)]
      ELSE [heap |-> [h EXCEPT ![root_two_pointer].parent = root_one_pointer,
                               ![root_one_pointer].rank = root_one_rank + 1],
            ret |-> Some(root_two)]

\* union that bumps the rank of the absorbed root on a tie
UnionRoots_BumpAbsorbed(h, root_one, root_two, root_one_pointer, root_two_pointer) ==
  LET root_one_rank == h[root_one_pointer].rank
      root_two_rank == h[root_two_pointer].rank
  IN  IF root_one = root_two
      THEN [heap |-> h, ret |-> Some(root_one)]
      ELSE IF root_one_rank < root_two_rank
      THEN [heap |-> [h EXCEPT ![root_one_pointer].parent = root_two_pointer],
            ret |-> Some(root_one)]
      ELSE IF root_one_rank > root_two_rank
      THEN [heap |-> [h EXCEPT ![root_two_pointer].parent = root_one_pointer],
            ret |-> Some(root_two)]
      ELSE [heap |-> [h EXCEPT ![root_two_pointer].parent = root_one_pointer,
                               ![root_two_pointer].rank = root_two_rank + 1],
            ret |-> Some(root_two)]

\* union that links the two roots to each other on a tie
UnionRoots_LinkBoth(h, root_one, root_two, root_one_pointer, root_two_pointer) ==
  LET root_one_rank == h[root_one_pointer].rank
      root_two_rank == h[root_two_pointer].rank
  IN  IF root_one = root_two
      THEN [heap |-> h, ret |-> Some(root_one)]
      ELSE IF root_one_rank < root_two_rank
      THEN [heap |-> [h EXCEPT ![root_one_pointer].parent = root_two_pointer],
            ret |-> Some(root_one)]
      ELSE IF root_one_rank > root_two_rank
      THEN [heap |-> [h EXCEPT ![root_two_pointer].parent = root_one_pointer],
            ret |-> Some(root_two)]
      ELSE [heap |-> [h EXCEPT ![root_two_pointer].parent = root_one_pointer,
                               ![root_one_pointer].parent = root_two_pointer,
                               ![root_one_pointer].rank = root_one_rank + 1],
            ret |-> Some(root_two)]

\* union that never bumps a rank
UnionRoots_NoBump(h, root_one, root_two, root_one_pointer, root_two_pointer) ==
  LET root_one_rank == h[root_one_pointer].rank
      root_two_rank == h[root_two_pointer].rank
  IN  IF root_one = root_two
      THEN [heap |-> h, ret |-> Some(root_one)]
      ELSE IF root_one_rank < root_two_rank
      THEN [heap |-> [h EXCEPT ![root_one_pointer].parent = root_two_pointer],
            ret |-> Some(root_one)]
      ELSE [heap |-> [h EXCEPT ![root_two_pointer].parent = root_one_pointer],
            ret |-> Some(root_two)]

\* union that bumps the rank of the survivor whenever the first root survives
UnionRoots_AlwaysBump(h, root_one, root_two, root_one_pointer, root_two_pointer) ==
  LET root_one_rank == h[root_one_pointer].rank
      root_two_rank == h[root_two_pointer].rank
  IN  IF root_one = root_two
      THEN [heap |-> h, ret |-> Some(root_one)]
      ELSE IF root_one_rank < root_two_rank
      THEN [heap |-> [h EXCEPT ![root_one_pointer].parent = root_two_pointer],
            ret |-> Some(root_one)]
      ELSE [heap |-> [h EXCEPT ![root_two_pointer].parent = root_one_pointer,
                               ![root_one_pointer].rank = root_one_rank + 1],
            ret |-> Some(root_two)]

\* union that compares the ranks the wrong way round
UnionRoots_RankSwap(h, root_one, root_two, root_one_pointer, root_two_pointer) ==
  LET root_one_rank == h[root_one_pointer].rank
      root_two_rank == h[root_two_pointer].rank
  IN  IF root_one = root_two
      THEN [heap |-> h, ret |-> Some(root_one)]
      ELSE IF root_one_rank > root_two_rank
      THEN [heap |-> [h EXCEPT ![root_one_pointer].parent = root_two_pointer],
            ret |-> Some(root_one)]
      ELSE IF root_one_rank < root_two_rank
      THEN [heap |-> [h EXCEPT ![root_two_pointer].parent = root_one_pointer],
            ret |-> Some(root_two)]
      ELSE [heap |-> [h EXCEPT ![root_two_pointer].parent = root_one_pointer,
                               ![root_one_pointer].rank = root_one_rank + 1],
            ret |-> Some(root_two)]

\* The two root pointers are compared by rank and linked.  rank is a u32;
\* a rank never exceeds the number of allocations (at most MaxNodes), so the
\* increment is the mathematical one in every state explored.
UnionRoots(h, root_one, root_two, root_one_pointer, root_two_pointer) ==
  LET root_one_rank == h[root_one_pointer].rank
      root_two_rank == h[root_two_pointer].rank
  IN  IF root_one = root_two
      THEN [heap |-> h, ret |-> Some(root_one)]
      ELSE IF root_one_rank < root_two_rank
      THEN [heap |-> [h EXCEPT ![root_one_pointer].parent = root_two_pointer],
            ret |-> Some(root_one)]
      ELSE IF root_one_rank > root_two_rank
      THEN [heap |-> [h EXCEPT ![root_two_pointer].parent = root_one_pointer],
            ret |-> Some(root_two)]
      ELSE [heap |-> [h EXCEPT ![root_two_pointer].parent = root_one_pointer,
                               ![root_one_pointer].rank =
                                   root_one_rank + 1],
            ret |-> Some(root_two)]

union(h, s, els, value_one, value_two) ==
  LET f1 == find(h, s, els, value_one)
  IN  IF f1.ret.tag # "Some" THEN f1
      ELSE LET f2 == find(f1.heap, s, els, value_two)
           IN  IF f2.ret.tag # "Some" THEN f2
               ELSE IF els[f1.ret.val] = 0 \/ els[f2.ret.val] = 0
               THEN [heap |-> f2.heap, ret |-> Panic]
               ELSE UnionRoots(f2.heap, f1.ret.val, f2.ret.val,
                               els[f1.ret.val], els[f2.ret.val])

\* ---- abstract partition, run side by side ---------------------------------
\* abs is a set of disjoint non-empty sets of values
AbsClass(P, v) == UNION {c \in P : v \in c}
AbsMakeSet(P, v) == ({c \ {v} : c \in P} \ {{}}) \cup {{v}}
AbsUnion(P, a, b) ==
  (P \ {c \in P : a \in c \/ b \in c}) \cup {AbsClass(P, a) \cup AbsClass(P, b)}

\* ---- state machine --------------------------------------------------------
\* call, ret and pre record the call in progress: its name and arguments, what
\* it returned, and the structure it started from.  They are cleared when the
\* call has returned to the caller (Return), who then makes the next call.
\* call.on tells which structure the call is made on: 1 the original, 2 the
\* clone.
State ==
  [heap |-> heap, strong |-> strong, elements |-> elements, clone |-> clone]

NoClone == <<>>
NoState ==
  [heap |-> <<>>, strong |-> <<>>, elements |-> [v \in Vals |-> 0],
   clone |-> NoClone]
NoCall == [op |-> "idle", a |-> 0, b |-> 0, on |-> 0]

Idle == call.op = "idle"

\* a panic unwinds the calling thread: no call follows it
Aborted == ret.tag \in {"Panic", "Loop"}

\* T is an opaque key: the code only hashes, compares and clones a value.
\* Every run is therefore a renaming of a run in which the values new to the
\* table first appear in the order 1, 2, 3, ...; a value already in the table
\* can be passed to make_set again at any time.
NextValue(els, v) == els[v] # 0 \/ \A u \in Vals : u < v => els[u] # 0

\* DisjointSet::new
Init ==
  /\ heap = <<>>
  /\ strong = <<>>
  /\ elements = [v \in Vals |-> 0]
  /\ clone = NoClone
  /\ call = [op |-> "new", a |-> 0, b |-> 0, on |-> 1]
  /\ ret = Unit
  /\ pre = NoState
  /\ abs = {}

MakeSet(v) ==
  /\ Idle
  /\ Len(heap) < MaxNodes
  /\ NextValue(elements, v)
  /\ LET r == make_set(heap, strong, elements, v)
     IN  /\ heap' = r.heap
         /\ strong' = r.strong
         /\ elements' = r.elements
  /\ call' = [op |-> "make_set", a |-> v, b |-> 0, on |-> 1]
  /\ ret' = Unit
  /\ pre' = State
  /\ abs' = AbsMakeSet(abs, v)
  /\ UNCHANGED clone

Find(v) ==
  /\ Idle
  /\ LET r == find(heap, strong, elements, v)
     IN  /\ heap' = r.heap
         /\ ret' = r.ret
  /\ call' = [op |-> "find", a |-> v, b |-> 0, on |-> 1]
  /\ pre' = State
  /\ UNCHANGED <<strong, elements, clone, abs>>

Union(a, b) ==
  /\ Idle
  /\ LET r == union(heap, strong, elements, a, b)
     IN  /\ heap' = r.heap
         /\ ret' = r.ret
         /\ abs' = IF r.ret.tag = "Some" THEN AbsUnion(abs, a, b) ELSE abs
  /\ call' = [op |-> "union", a |-> a, b |-> b, on |-> 1]
  /\ pre' = State
  /\ UNCHANGED <<strong, elements, clone>>

\* the call is over and its result consumed; the structure stays as it is
Return ==
  /\ ~Idle
  /\ ~Aborted
  /\ call' = NoCall
  /\ ret' = Unit
  /\ pre' = NoState
  /\ UNCHANGED <<heap, strong, elements, clone, abs>>

Next ==
  \/ \E v \in Vals : MakeSet(v)
  \/ \E v \in Vals : Find(v)
  \/ \E a \in Vals, b \in Vals : Union(a, b)
  \/ Return

Spec == Init /\ [][Next]_vars

\* ---- a second structure made by the derived Clone --------------------------
\* #[derive(Clone)] on DisjointSet clones the HashMap: every key is cloned and
\* every Rc is cloned, which adds one to the strong count of the allocation
\* and copies no SubSet.
Clone ==
  /\ Idle
  /\ clone = NoClone
  /\ clone' = elements
  /\ strong' = [i \in DOMAIN strong |->
                  IF \E v \in Vals : elements[v] = i
                  THEN strong[i] + 1 ELSE strong[i]]
  /\ call' = [op |-> "clone", a |-> 0, b |-> 0, on |-> 1]
  /\ ret' = Unit
  /\ pre' = State
  /\ UNCHANGED <<heap, elements, abs>>

\* make_set, find and union called on the clone
CloneMakeSet(v) ==
  /\ Idle
  /\ clone # NoClone
  /\ Len(heap) < MaxNodes
  /\ NextValue(clone, v)
  /\ LET r == make_set(heap, strong, clone, v)
     IN  /\ heap' = r.heap
         /\ strong' = r.strong
         /\ clone' = r.elements
  /\ call' = [op |-> "make_set", a |-> v, b |-> 0, on |-> 2]
  /\ ret' = Unit
  /\ pre' = State
  /\ UNCHANGED <<elements, abs>>

CloneFind(v) ==
  /\ Idle
  /\ clone # NoClone
  /\ LET r == find(heap, strong, clone, v)
     IN  /\ heap' = r.heap
         /\ ret' = r.ret
  /\ call' = [op |-> "find", a |-> v, b |-> 0, on |-> 2]
  /\ pre' = State
  /\ UNCHANGED <<strong, elements, clone, abs>>

CloneUnion(a, b) ==
  /\ Idle
  /\ clone # NoClone
  /\ LET r == union(heap, strong, clone, a, b)
     IN  /\ heap' = r.heap
         /\ ret' = r.ret
  /\ call' = [op |-> "union", a |-> a, b |-> b, on |-> 2]
  /\ pre' = State
  /\ UNCHANGED <<strong, elements, clone, abs>>

NextClone ==
  \/ Next
  \/ Clone
  \/ \E v \in Vals : CloneMakeSet(v)
  \/ \E v \in Vals : CloneFind(v)
  \/ \E a \in Vals, b \in Vals : CloneUnion(a, b)

SpecClone == Init /\ [][NextClone]_vars

\* ---- observations ---------------------------------------------------------
Registered(els) == {v \in Vals : els[v] # 0}

\* what find(v) returns in a state
FindIn(st, v) == find(st.heap, st.strong, st.elements, v).ret
FindNow(v) == FindIn(State, v)
PreFind(v) == FindIn(pre, v)

\* the node the table holds for v has no parent
IsRoot(st, v) == st.elements[v] # 0 /\ st.heap[st.elements[v]].parent = 0

\* some value went through make_set more than once
Remade == Len(heap) > Cardinality(Registered(elements))

SameSet(a, b) == FindNow(a).tag = "Some" /\ FindNow(a) = FindNow(b)

TypeOK ==
  /\ Len(heap) = Len(strong)
  /\ Len(heap) <= MaxNodes
  /\ \A v \in Vals : elements[v] \in 0..Len(heap)

\* ---- claims ---------------------------------------------------------------

\* C1: as long as no value has been passed to make_set twice, two registered
\* values have the same find result exactly when the abstract partition,
\* which merges the classes of a and b on every union(a, b) that returns Some
\* and is left alone by find and by failed unions, puts them in one class.
C1_AgreesWithPartition ==
  ~Remade =>
    /\ ~Aborted
    /\ \A x \in Registered(elements) : FindNow(x).tag = "Some"
    /\ \A x, y \in Registered(elements) :
         (FindNow(x) = FindNow(y)) <=> (AbsClass(abs, x) = AbsClass(abs, y))

\* a union has just merged two classes while a third value stays apart
C1_Witness ==
  /\ ~Remade
  /\ call.op = "union" /\ ret.tag = "Some"
  /\ PreFind(call.a) # PreFind(call.b)
  /\ FindNow(call.a) = FindNow(call.b)
  /\ \E z \in Registered(elements) : FindNow(z) # FindNow(call.a)
  /\ \E z \in Registered(elements) \ {call.a, call.b} :
       FindNow(z) = FindNow(call.a)

\* C2: a union(a, b) that returns Some leaves find(a) = find(b), and every
\* find or union call keeps every pair that had find(a) = find(b) when the
\* call started; so a pair once joined by union is joined at every later
\* point of any sequence of find and union calls.
PreSameSet(a, b) == PreFind(a).tag = "Some" /\ PreFind(a) = PreFind(b)

C2_UnionStaysJoined ==
  call.op \in {"find", "union"} =>
    /\ (call.op = "union" /\ ret.tag = "Some") => SameSet(call.a, call.b)
    /\ \A a, b \in Vals : PreSameSet(a, b) => SameSet(a, b)

\* a later union changed the representative of a pair joined before it
C2_Witness ==
  /\ call.op = "union" /\ ret.tag = "Some"
  /\ \E a, b \in Vals :
       /\ a # b
       /\ PreFind(a).tag = "Some" /\ PreFind(a) = PreFind(b)
       /\ FindNow(a) = FindNow(b)
       /\ FindNow(a) # PreFind(a)

\* C3: right after make_set(v), whatever the structure was before, the table
\* holds for v the node just created, with value v, rank 0 and no parent, and
\* find(v) returns Some(v).
C3_MakeSetThenFind ==
  call.op = "make_set" =>
    /\ elements[call.a] = Len(heap)
    /\ heap[elements[call.a]] = [rank |-> 0, value |-> call.a, parent |-> 0]
    /\ strong[elements[call.a]] = 1
    /\ FindNow(call.a) = Some(call.a)

\* make_set of a value that was registered and merged under another root
C3_Witness ==
  /\ call.op = "make_set"
  /\ PreFind(call.a).tag = "Some"
  /\ PreFind(call.a) # Some(call.a)
  /\ FindNow(call.a) = Some(call.a)

\* C4: a union that returns Some over two distinct roots returns the value of
\* the root that was a root before the call and has a parent after it, while
\* the other root is still a root; over one shared root it returns that root.
C4_ReturnsAbsorbedRoot ==
  (call.op = "union" /\ ret.tag = "Some") =>
    LET ra == PreFind(call.a)
        rb == PreFind(call.b)
    IN  /\ ra.tag = "Some" /\ rb.tag = "Some"
        /\ IF ra = rb
           THEN ret = ra
           ELSE /\ ret \in {ra, rb}
                /\ IsRoot(pre, ret.val)
                /\ ~IsRoot(State, ret.val)
                /\ \A r \in {ra, rb} \ {ret} : IsRoot(State, r.val)

\* the first argument's root was the one absorbed
C4_Witness ==
  /\ call.op = "union" /\ ret.tag = "Some"
  /\ PreFind(call.a) # PreFind(call.b)
  /\ ret = PreFind(call.a)
  /\ ~IsRoot(State, ret.val)

\* C5: in a union over distinct roots ra (of a) and rb (of b), the root of
\* lower rank gets the other as parent, and on equal ranks rb gets ra as
\* parent; for two fresh singletons a, b the call returns Some(b), after it
\* find(a) = find(b) = Some(a) and the rank of a is 1.
C5_LinkByRank ==
  (call.op = "union" /\ ret.tag = "Some" /\ PreFind(call.a) # PreFind(call.b)) =>
    LET pa == pre.elements[PreFind(call.a).val]
        pb == pre.elements[PreFind(call.b).val]
        fresh(p) == pre.heap[p].rank = 0 /\ pre.heap[p].parent = 0
    IN  /\ pre.heap[pa].rank < pre.heap[pb].rank =>
             heap[pa].parent = pb /\ heap[pb].parent = 0
        /\ pre.heap[pa].rank > pre.heap[pb].rank =>
             heap[pb].parent = pa /\ heap[pa].parent = 0
        /\ pre.heap[pa].rank = pre.heap[pb].rank =>
             heap[pb].parent = pa /\ heap[pa].parent = 0
        /\ (fresh(pre.elements[call.a]) /\ fresh(pre.elements[call.b])) =>
             /\ ret = Some(call.b)
             /\ FindNow(call.a) = Some(call.a)
             /\ FindNow(call.b) = Some(call.a)
             /\ heap[elements[call.a]].rank = 1

\* a root of lower rank was put under the root of the second argument
C5_Witness ==
  /\ call.op = "union" /\ ret.tag = "Some"
  /\ PreFind(call.a) # PreFind(call.b)
  /\ pre.heap[pre.elements[PreFind(call.a).val]].rank
       < pre.heap[pre.elements[PreFind(call.b).val]].rank
  /\ heap[pre.elements[PreFind(call.a).val]].parent
       = pre.elements[PreFind(call.b).val]

\* the addresses find(v) visits below the root, in the state st
Chain(st, v) ==
  IF st.elements[v] = 0 THEN {}
  ELSE LET w == FindWalk(st.heap, st.strong, st.elements[v], <<>>, Len(st.heap))
       IN  {w.changed_nodes[k] : k \in DOMAIN w.changed_nodes}

\* C6: a find of a registered value and a union of two registered values
\* return Some and never abort; None is returned only when an argument has
\* no table entry.
C6_OnlyFailureIsNotRegistered ==
  /\ call.op = "find" =>
       /\ pre.elements[call.a] # 0 => ret.tag = "Some"
       /\ ret.tag \in {"Some", "None"}
       /\ ret = None => pre.elements[call.a] = 0
  /\ call.op = "union" =>
       /\ (pre.elements[call.a] # 0 /\ pre.elements[call.b] # 0)
            => ret.tag = "Some"
       /\ ret.tag \in {"Some", "None"}
       /\ ret = None => (pre.elements[call.a] = 0 \/ pre.elements[call.b] = 0)

\* C7: make_set(v) on a value with a table entry leaves v a singleton: find(v)
\* returns Some(v), the node of v has rank 0 and no parent, and find returns
\* Some(v) for no other registered value.
C7_RemakeSevers ==
  (call.op = "make_set" /\ pre.elements[call.a] # 0) =>
    /\ FindNow(call.a) = Some(call.a)
    /\ heap[elements[call.a]].rank = 0
    /\ heap[elements[call.a]].parent = 0
    /\ elements[call.a] # pre.elements[call.a]
    /\ \A w \in Registered(elements) \ {call.a} : FindNow(w) # Some(call.a)

\* make_set of a value that was a root with another value below it
C7_Witness ==
  /\ call.op = "make_set"
  /\ pre.elements[call.a] # 0
  /\ \E w \in Registered(pre.elements) \ {call.a} : PreFind(w) = Some(call.a)
  /\ \A w \in Registered(elements) \ {call.a} : FindNow(w) # Some(call.a)

\* C8: a union with an argument that has no table entry returns None, changes
\* no rank, gives no root a parent and changes no find result; it changes
\* nothing at all when the first argument has no entry, and otherwise only
\* the parent links on the chain of the first argument.
C8_FailedUnionOnlyCompresses ==
  (call.op = "union"
     /\ (pre.elements[call.a] = 0 \/ pre.elements[call.b] = 0)) =>
    /\ ret = None
    /\ elements = pre.elements /\ strong = pre.strong
    /\ \A i \in DOMAIN heap :
         /\ heap[i].rank = pre.heap[i].rank
         /\ pre.heap[i].parent = 0 => heap[i].parent = 0
         /\ heap[i].parent # pre.heap[i].parent => i \in Chain(pre, call.a)
    /\ \A w \in Registered(elements) : FindNow(w) = PreFind(w)
    /\ pre.elements[call.a] = 0 => heap = pre.heap

\* C9: find of a value without table entry returns None and leaves the
\* table, every parent link and every rank as they were.
C9_FindUnregistered ==
  (call.op = "find" /\ pre.elements[call.a] = 0) =>
    /\ ret = None
    /\ State = pre

\* find of a value without entry while other values are registered and linked
C9_Witness ==
  /\ call.op = "find"
  /\ pre.elements[call.a] = 0
  /\ ret = None
  /\ \E i \in DOMAIN heap : heap[i].parent # 0

Representatives(st) ==
  {r \in {FindIn(st, v) : v \in Registered(st.elements)} : r.tag = "Some"}

PartitionCount(st) == Cardinality(Representatives(st))

\* C11: the number of distinct values find returns over the registered values
\* is at most the number of make_set calls made so far; a union that returns
\* Some over two distinct roots lowers it by exactly one; a find, a union
\* over one shared root and a union that does not return Some leave it as it
\* was.
C11_PartitionCount ==
  /\ PartitionCount(State) <= Len(heap)
  /\ call.op = "find" => PartitionCount(State) = PartitionCount(pre)
  /\ call.op = "union" =>
       IF ret.tag = "Some" /\ PreFind(call.a) # PreFind(call.b)
       THEN PartitionCount(State) = PartitionCount(pre) - 1
       ELSE PartitionCount(State) = PartitionCount(pre)

\* a union merged two partitions that both had more than one member
C11_Witness ==
  /\ call.op = "union" /\ ret.tag = "Some"
  /\ PreFind(call.a) # PreFind(call.b)
  /\ PreFind(call.a) # Some(call.a)
  /\ PreFind(call.b) # Some(call.b)
  /\ PartitionCount(pre) = 2
  /\ PartitionCount(State) = 1

\* the allocations still owned by the table
Live == {i \in DOMAIN heap : strong[i] > 0}

\* C12: the parent link of every node resolves to a node the lookup table
\* owns: no weak parent reference ever resolves to nothing.
C12_ParentsOwned ==
  \A i \in Live :
    heap[i].parent # 0 =>
      /\ upgrade(strong, heap[i].parent) # 0
      /\ \E v \in Vals : elements[v] = heap[i].parent

\* C13: the parent relation is a forest: no node is its own parent or
\* ancestor, and following the parent links from any node ends, after
\* finitely many steps, at a node without parent.
C13_Forest ==
  \A i \in Live :
    LET w == FindWalk(heap, strong, i, <<>>, Len(heap))
    IN  /\ heap[i].parent # i
        /\ w.tag = "Root"
        /\ heap[w.root].parent = 0
        /\ \A j, k \in DOMAIN w.changed_nodes :
             j # k => w.changed_nodes[j] # w.changed_nodes[k]

\* the addresses met by following the parent links of st.heap from i, i
\* included, in at most n steps
RECURSIVE Up(_, _, _)
Up(h, i, n) ==
  IF n = 0 \/ h[i].parent = 0 THEN {i} ELSE {i} \cup Up(h, h[i].parent, n - 1)

\* C14: after a find(v) that returns, every node that was on the parent chain
\* from v below the root has the root as parent, the root has no parent, and
\* every other parent link is as before; with v the root no link changes.
C14_CompressionExact ==
  (call.op = "find" /\ ret.tag = "Some") =>
    LET up == Up(pre.heap, pre.elements[call.a], Len(pre.heap))
        top == {i \in up : pre.heap[i].parent = 0}
    IN  /\ Cardinality(top) = 1
        /\ \A r \in top :
             /\ ret = Some(pre.heap[r].value)
             /\ heap[r].parent = 0
             /\ \A i \in up \ {r} : heap[i].parent = r
        /\ \A i \in DOMAIN heap \ up : heap[i].parent = pre.heap[i].parent
        /\ pre.heap[pre.elements[call.a]].parent = 0 => heap = pre.heap
        /\ \A i \in DOMAIN heap :
             heap[i].rank = pre.heap[i].rank /\ heap[i].value = pre.heap[i].value

\* find of a value two links below its root rewrote the link of that value
C14_Witness ==
  /\ call.op = "find" /\ ret.tag = "Some"
  /\ Cardinality(Up(pre.heap, pre.elements[call.a], Len(pre.heap))) >= 3
  /\ heap[elements[call.a]].parent # pre.heap[elements[call.a]].parent
  /\ heap[elements[call.a]].parent = elements[ret.val]

\* C15: the rank of a node changes only in a union that returns Some over two
\* distinct roots of equal rank, and then only the rank of the first
\* argument's root, which survives, by exactly one; that union always makes
\* this change.  (A node replaced by a repeated make_set is dropped, not
\* changed.)
C15_RankFrame ==
  LET tie == /\ call.op = "union" /\ ret.tag = "Some"
             /\ PreFind(call.a) # PreFind(call.b)
             /\ pre.heap[pre.elements[PreFind(call.a).val]].rank
                  = pre.heap[pre.elements[PreFind(call.b).val]].rank
  IN  /\ \A i \in DOMAIN pre.heap :
           (strong[i] > 0 /\ heap[i].rank # pre.heap[i].rank) =>
             /\ tie
             /\ i = pre.elements[PreFind(call.a).val]
             /\ heap[i].parent = 0
             /\ heap[i].rank = pre.heap[i].rank + 1
      /\ tie => heap[pre.elements[PreFind(call.a).val]].rank
                  = pre.heap[pre.elements[PreFind(call.a).val]].rank + 1

\* a tie between two roots of rank 1 raised the survivor to rank 2
C15_Witness ==
  /\ call.op = "union" /\ ret.tag = "Some"
  /\ PreFind(call.a) # PreFind(call.b)
  /\ pre.heap[pre.elements[PreFind(call.a).val]].rank = 1
  /\ heap[elements[PreFind(call.a).val]].rank = 2

\* the longest chain of parent links that ends at node i
RECURSIVE Height(_, _, _, _)
Height(h, s, i, fuel) ==
  LET below == {k \in DOMAIN h : s[k] > 0 /\ h[k].parent = i}
  IN  IF below = {} \/ fuel = 0 THEN 0
      ELSE LET hs == {Height(h, s, k, fuel - 1) : k \in below}
           IN  1 + CHOOSE x \in hs : \A y \in hs : y <= x

\* C16: no find or union call runs forever: in every state the walk of find
\* from any registered value stops, and when it stops at a root it has taken
\* at most as many steps as the tree of that root is high.
C16_WalkBounded ==
  /\ ret.tag # "Loop"
  /\ \A v \in Registered(elements) :
       LET w == FindWalk(heap, strong, elements[v], <<>>, Len(heap))
       IN  /\ w.tag # "Loop"
           /\ w.tag = "Root" =>
                Len(w.changed_nodes) <= Height(heap, strong, w.root, Len(heap))

\* a find walked two links, the full height of its tree
C16_Witness ==
  /\ call.op = "find" /\ ret.tag = "Some"
  /\ Cardinality(Chain(pre, call.a)) = 2
  /\ Height(pre.heap, pre.strong, pre.elements[ret.val], Len(pre.heap)) = 2

\* C18: a find of a registered value changes neither the table, nor a rank,
\* nor which nodes are roots, nor what find returns for any value; the same
\* find made again right after it returns the same value and changes nothing.
C18_FindObservablyPure ==
  (call.op = "find" /\ pre.elements[call.a] # 0) =>
    /\ elements = pre.elements /\ strong = pre.strong
    /\ \A i \in DOMAIN heap :
         /\ heap[i].rank = pre.heap[i].rank
         /\ heap[i].value = pre.heap[i].value
         /\ (heap[i].parent = 0) <=> (pre.heap[i].parent = 0)
    /\ \A w \in Vals : FindNow(w) = PreFind(w)
    /\ find(heap, strong, elements, call.a) = [heap |-> heap, ret |-> ret]

\* a find that rewrote a parent link; the same find again changes nothing
C18_Witness ==
  /\ call.op = "find" /\ ret.tag = "Some"
  /\ heap # pre.heap
  /\ find(heap, strong, elements, call.a) = [heap |-> heap, ret |-> ret]

\* C19: while no value has been passed to make_set twice, every node with a
\* parent has a rank strictly below the rank of its parent, and no tree is
\* higher than the rank of its root.
C19_RankAboveChildren ==
  ~Remade =>
    \A i \in Live :
      IF heap[i].parent # 0
      THEN heap[i].rank < heap[heap[i].parent].rank
      ELSE Height(heap, strong, i, Len(heap)) <= heap[i].rank

\* a find flattened a tree whose root has rank 2: its height is now below
\* the rank
C19_Witness ==
  /\ ~Remade
  /\ call.op = "find" /\ ret.tag = "Some"
  /\ heap # pre.heap
  /\ heap[elements[ret.val]].rank = 2
  /\ Height(heap, strong, elements[ret.val], Len(heap)) = 1

\* the number of nodes in the tree of root i
TreeSize(i) ==
  Cardinality({k \in Live : i \in Up(heap, k, Len(heap))})

\* C20: while no value has been passed to make_set twice, the tree of a root
\* of rank r has at least 2^r nodes, and no rank r of any node exceeds the
\* binary logarithm of the number n of registered values (2^r <= n), so the
\* increment of a u32 rank would need more than 2^(2^32 - 1) values to wrap.
C20_RankLogarithmic ==
  ~Remade =>
    \A i \in Live :
      /\ heap[i].parent = 0 => TreeSize(i) >= 2 ^ heap[i].rank
      /\ 2 ^ heap[i].rank <= Cardinality(Registered(elements))

\* a root of rank 2 over exactly four nodes
C20_Witness ==
  /\ ~Remade
  /\ call.op = "union" /\ ret.tag = "Some"
  /\ \E i \in Live :
       heap[i].parent = 0 /\ heap[i].rank = 2 /\ TreeSize(i) = 4

\* the allocations a table owns
Owned(els) == {els[v] : v \in Registered(els)}

\* what find(v) on the clone returns in a state
CloneFindIn(st, v) == find(st.heap, st.strong, st.clone, v).ret

\* C17: a make_set, find or union call on one structure leaves every parent
\* link, every rank and every find result of the other one as they were, also
\* when the other one was made from it by clone().
C17_InstancesSeparate ==
  (clone # NoClone /\ pre.clone # NoClone
     /\ call.op \in {"make_set", "find", "union"}) =>
    /\ call.on = 1 =>
         /\ clone = pre.clone
         /\ \A i \in Owned(pre.clone) : heap[i] = pre.heap[i]
         /\ \A v \in Vals : CloneFindIn(State, v) = CloneFindIn(pre, v)
    /\ call.on = 2 =>
         /\ elements = pre.elements
         /\ \A i \in Owned(pre.elements) : heap[i] = pre.heap[i]
         /\ \A v \in Vals : FindNow(v) = PreFind(v)
====
